---- MODULE Spec2Model ----
(***************************************************************************)
(* The example routines of src/src/main.rs (thread spawning and joining,   *)
(* mpsc channels with one and two producers, a mutex-guarded value) as a   *)
(* state machine.  One routine runs per behaviour: `scenario` is chosen in *)
(* Init and never changes.  The standard-library primitives the routines   *)
(* call (JoinHandle::join, mpsc send/recv/clone/drop, Mutex lock and the   *)
(* guard's drop) are operators on the channel and cell records.            *)
(*                                                                         *)
(* Three further scenarios exercise the same primitives where no routine   *)
(* of main.rs does: "cell_contention" (several threads incrementing one    *)
(* cell, spec.md section 8), "join_outcome" (a joined task that may        *)
(* terminate abnormally, spec.md sections 4.1 and 8) and "channel_ends"    *)
(* (try_recv, and send after the Receiver is gone, spec.md section 4.2).   *)
(***************************************************************************)
EXTENDS Integers, Sequences, FiniteSets, Bags, TLC

\* Number of worker threads of the cell_contention scenario (at least 2:
\* clone_transmitter spawns two producers).
NThreads == 3

\* for i in 1..10 (spawned thread) and for i in 1..5 (main thread)
SpawnedEnd == 10
MainEnd == 5
\* Mutex::new(5) and *num = 6
InitialValue == 5
WrittenValue == 6

Main == 0
Workers == 1..NThreads
Threads == {Main} \cup Workers

\* vec![String::from("hi"), String::from("from"), String::from("the"), String::from("thread")]
vals == <<"hi", "from", "the", "thread">>
\* vec![1, 2, 3]
v == <<1, 2, 3>>

JoinLoopScenarios == {"spawn_threadsa", "join_outcome"}
JoinScenarios == JoinLoopScenarios \cup {"closures_and_threads"}
LoopChannelScenarios == {"sending_multiple_values", "clone_transmitter"}
ChannelScenarios == LoopChannelScenarios \cup {"message_passing"}
CellScenarios == {"use_mutex", "cell_contention"}
\* One producer looping over vals, a consumer that polls with try_recv and
\* may drop the Receiver at any time
PollScenarios == {"channel_ends"}
Scenarios ==
    JoinScenarios \cup ChannelScenarios \cup CellScenarios \cup PollScenarios

VARIABLES
    scenario,   \* the routine this behaviour runs
    pc,         \* pc[t]: the statement thread t executes next
    i,          \* i[t]: loop counter of thread t (1-based index of `for`)
    chan,       \* the mpsc channel: queue, live Senders, Receiver alive
    recieved,   \* the consumer's local `recieved`
    out,        \* standard output, one entry per println!
    cell,       \* the Mutex: value, holder, poisoned flag
    local,      \* local[t]: value read inside the critical section
    joinRes     \* what handle.join() returned ("none" before it returns)

vars == <<scenario, pc, i, chan, recieved, out, cell, local, joinRes>>

----------------------------------------------------------------------------
(* Primitives                                                              *)

\* Mutants of JoinResult: join returns without waiting for the task; join
\* reports a panicked task as Ok
JoinResultNoWait(status) == IF status = "panicked" THEN "TaskPanicked" ELSE "Ok"
JoinResultSwallow(status) ==
    IF status \in {"done", "panicked"} THEN "Ok" ELSE "Blocked"

\* JoinHandle::join: blocks until the task has terminated; Ok(value) for a
\* task that ran to its end, Err for one that panicked.
JoinResult(status) ==
    IF status = "done" THEN "Ok"
    ELSE IF status = "panicked" THEN "TaskPanicked"
    ELSE "Blocked"

NoChannel == [queue |-> <<>>, senders |-> 0, receiver |-> FALSE]

\* Mutant of channel: the Receiver is dropped as soon as it is made
\* (let (tx, _) = mpsc::channel())
channelReceiverDropped == [queue |-> <<>>, senders |-> 1, receiver |-> FALSE]

\* mpsc::channel(): one Sender, one Receiver, an empty unbounded queue
channel == [queue |-> <<>>, senders |-> 1, receiver |-> TRUE]

\* Mutant of SenderClone: one more Sender stays behind, owned by no producer
SenderCloneKept(c) == [c EXCEPT !.senders = @ + 2]

\* tx.clone()
SenderClone(c) == [c EXCEPT !.senders = @ + 1]

\* Mutants of Send: a stack instead of a queue; a one-slot mailbox
SendLifo(c, m) == IF c.receiver THEN [c EXCEPT !.queue = <<m>> \o @] ELSE c
SendOverwrite(c, m) == IF c.receiver THEN [c EXCEPT !.queue = <<m>>] ELSE c

\* Mutant of Send: the message is enqueued although the Receiver is gone
SendAlways(c, m) == [c EXCEPT !.queue = Append(@, m)]

\* Mutant of SendResult: a bounded channel of capacity 1, whose send waits
\* for room
SendResultBounded(c) ==
    IF ~c.receiver THEN "Disconnected"
    ELSE IF Len(c.queue) >= 1 THEN "Blocked"
    ELSE "Ok"

\* tx.send(val): Err(SendError) when the Receiver is gone, else enqueue; the
\* queue of mpsc::channel() is unbounded, so send never waits ("Blocked")
SendResult(c) == IF c.receiver THEN "Ok" ELSE "Disconnected"
Send(c, m) == IF c.receiver THEN [c EXCEPT !.queue = Append(@, m)] ELSE c

\* Mutant of SenderDrop: closing the channel discards what is queued
SenderDropDiscard(c) ==
    [c EXCEPT !.senders = @ - 1, !.queue = IF c.senders = 1 THEN <<>> ELSE @]

\* drop(tx) at the end of the closure that owns it
SenderDrop(c) == [c EXCEPT !.senders = @ - 1]

\* Mutants of RecvResult: recv never reports the disconnection; recv looks at
\* the Sender count before it looks at the queue
RecvResultNoDisconnect(c) == IF c.queue # <<>> THEN "Ok" ELSE "Blocked"
RecvResultDisconnectFirst(c) ==
    IF c.senders = 0 THEN "Disconnected"
    ELSE IF c.queue # <<>> THEN "Ok"
    ELSE "Blocked"

\* Mutant of RecvResult: an empty queue is taken for the end of the stream
RecvResultEmptyIsEnd(c) == IF c.queue # <<>> THEN "Ok" ELSE "Disconnected"

\* rx.recv(): the head of the queue if there is one; otherwise Err(RecvError)
\* when no Sender is left, and blocked while one is
RecvResult(c) ==
    IF c.queue # <<>> THEN "Ok"
    ELSE IF c.senders = 0 THEN "Disconnected"
    ELSE "Blocked"
Recv(c) == [c EXCEPT !.queue = Tail(@)]

\* rx.try_recv(): what recv would return, with Err(Empty) where recv would
\* block
TryRecvResult(c) ==
    IF RecvResult(c) = "Blocked" THEN "Empty" ELSE RecvResult(c)

\* drop(rx): the queue and what it still holds go with it
ReceiverDrop(c) == [c EXCEPT !.receiver = FALSE, !.queue = <<>>]

\* cell.holders: the threads that own a MutexGuard of the cell
NoCell == [value |-> 0, holders |-> {}, poisoned |-> FALSE]

\* Mutex::new(initial)
MutexNew(initial) == [value |-> initial, holders |-> {}, poisoned |-> FALSE]

\* Mutant of LockResult: the lock is granted whoever holds it
LockResultNoExclusion(m) == IF m.poisoned THEN "Poisoned" ELSE "Ok"

\* m.lock(): blocked while a thread holds the lock; Err(PoisonError) once a
\* holder has panicked, Ok(guard) otherwise
LockResult(m) ==
    IF m.holders # {} THEN "Blocked"
    ELSE IF m.poisoned THEN "Poisoned"
    ELSE "Ok"

\* Mutant of GuardDrop: the lock recovers silently, the cell is never poisoned
GuardDropNoPoison(m, t, panicking) == [m EXCEPT !.holders = @ \ {t}]

\* Mutant of GuardDrop: the end of the scope does not release the lock
GuardDropKeepsLock(m, t, panicking) == [m EXCEPT !.poisoned = @ \/ panicking]

\* Mutant of GuardDrop: a guard dropped while unwinding poisons the cell and
\* keeps the lock
GuardDropLeakOnPanic(m, t, panicking) ==
    IF panicking THEN [m EXCEPT !.poisoned = TRUE]
    ELSE [m EXCEPT !.holders = @ \ {t}]

\* drop of thread t's MutexGuard at the end of its scope, or while t unwinds:
\* the lock is released, and poisoned if t is panicking
GuardDrop(m, t, panicking) ==
    [m EXCEPT !.holders = @ \ {t}, !.poisoned = @ \/ panicking]

----------------------------------------------------------------------------
\* `recieved` before anything was received
NoMsg == [from |-> Main, val |-> ""]

Goto(t, loc) == pc' = [pc EXCEPT ![t] = loc]

Init ==
    /\ scenario \in Scenarios
    /\ pc = [t \in Threads |-> IF t = Main THEN "start" ELSE "idle"]
    /\ i = [t \in Threads |-> 0]
    /\ chan = NoChannel
    /\ recieved = NoMsg
    /\ out = <<>>
    /\ cell = NoCell
    /\ local = [t \in Threads |-> 0]
    /\ joinRes = "none"

----------------------------------------------------------------------------
(* spawn_threadsa, closures_and_threads                                    *)

\* let handle = thread::spawn(|| { for i in 1..10 { ... } });
SpawnLoopThread ==
    /\ scenario \in JoinLoopScenarios
    /\ pc[Main] = "start"
    /\ pc' = [pc EXCEPT ![Main] = "loop", ![1] = "print"]
    /\ i' = [i EXCEPT ![Main] = 1, ![1] = 1]
    /\ UNCHANGED <<scenario, chan, recieved, out, cell, local, joinRes>>

\* println!("number {} from spawned thread", i);
SpawnedPrint ==
    /\ pc[1] = "print"
    /\ out' = Append(out, <<"spawned", i[1]>>)
    /\ Goto(1, "sleep")
    /\ UNCHANGED <<scenario, i, chan, recieved, cell, local, joinRes>>

\* thread::sleep(Duration::from_millis(1)); and the next iteration, if any
SpawnedSleep ==
    /\ pc[1] = "sleep"
    /\ i' = [i EXCEPT ![1] = @ + 1]
    /\ Goto(1, IF i[1] + 1 < SpawnedEnd THEN "print" ELSE "done")
    /\ UNCHANGED <<scenario, chan, recieved, out, cell, local, joinRes>>

\* Mutant of MainPrint: spawn hands back the handle only when the task is over
MainPrintAfterTask ==
    /\ pc[Main] = "loop"
    /\ pc[1] \in {"done", "panicked"}
    /\ out' = Append(out, <<"main", i[Main]>>)
    /\ i' = [i EXCEPT ![Main] = @ + 1]
    /\ Goto(Main, IF i[Main] + 1 < MainEnd THEN "loop" ELSE "join")
    /\ UNCHANGED <<scenario, chan, recieved, cell, local, joinRes>>

\* for i in 1..5 { println!("number {} from main thread", i); }
MainPrint ==
    /\ pc[Main] = "loop"
    /\ out' = Append(out, <<"main", i[Main]>>)
    /\ i' = [i EXCEPT ![Main] = @ + 1]
    /\ Goto(Main, IF i[Main] + 1 < MainEnd THEN "loop" ELSE "join")
    /\ UNCHANGED <<scenario, chan, recieved, cell, local, joinRes>>

\* let handle = thread::spawn(move || { println!("vector: {:?}", v); });
SpawnVecThread ==
    /\ scenario = "closures_and_threads"
    /\ pc[Main] = "start"
    /\ pc' = [pc EXCEPT ![Main] = "join", ![1] = "print_v"]
    /\ UNCHANGED <<scenario, i, chan, recieved, out, cell, local, joinRes>>

\* println!("vector: {:?}", v);
SpawnedPrintVec ==
    /\ pc[1] = "print_v"
    /\ out' = Append(out, <<"vector", v>>)
    /\ Goto(1, "done")
    /\ UNCHANGED <<scenario, i, chan, recieved, cell, local, joinRes>>

\* handle.join(): returns once the task has terminated
Join ==
    /\ pc[Main] = "join"
    /\ JoinResult(pc[1]) # "Blocked"
    /\ joinRes' = JoinResult(pc[1])
    /\ Goto(Main, "unwrap")
    /\ UNCHANGED <<scenario, i, chan, recieved, out, cell, local>>

\* .unwrap() on what join returned: panics on Err
JoinUnwrap ==
    /\ pc[Main] = "unwrap"
    /\ Goto(Main, IF joinRes = "Ok" THEN "done" ELSE "panicked")
    /\ UNCHANGED <<scenario, i, chan, recieved, out, cell, local, joinRes>>

\* join_outcome only: the task body terminates abnormally
TaskPanic ==
    /\ scenario = "join_outcome"
    /\ pc[1] \in {"print", "sleep"}
    /\ Goto(1, "panicked")
    /\ UNCHANGED <<scenario, i, chan, recieved, out, cell, local, joinRes>>

\* join_outcome only: the caller takes join's Result as a value and goes on
JoinHandled ==
    /\ scenario = "join_outcome"
    /\ pc[Main] = "unwrap"
    /\ Goto(Main, "done")
    /\ UNCHANGED <<scenario, i, chan, recieved, out, cell, local, joinRes>>

----------------------------------------------------------------------------
(* message_passing, sending_multiple_values, clone_transmitter             *)
(* A queued message is the String sent, tagged with the thread that sent   *)
(* it; the tag is read by the properties only.                             *)

Msg(t, s) == [from |-> t, val |-> s]

\* let (tx, rx) = mpsc::channel();
Channel ==
    /\ scenario \in ChannelScenarios \cup PollScenarios
    /\ pc[Main] = "start"
    /\ chan' = channel
    /\ Goto(Main, IF scenario = "clone_transmitter" THEN "clone" ELSE "spawn")
    /\ UNCHANGED <<scenario, i, recieved, out, cell, local, joinRes>>

\* let tx1 = tx.clone();
CloneSender ==
    /\ pc[Main] = "clone"
    /\ chan' = SenderClone(chan)
    /\ Goto(Main, "spawn")
    /\ UNCHANGED <<scenario, i, recieved, out, cell, local, joinRes>>

\* message_passing: thread::spawn(move || { ... tx.send(val) ... });
SpawnSender ==
    /\ scenario = "message_passing"
    /\ pc[Main] = "spawn"
    /\ pc' = [pc EXCEPT ![Main] = "recv", ![1] = "send_hi"]
    /\ UNCHANGED <<scenario, i, chan, recieved, out, cell, local, joinRes>>

\* Mutant of SpawnProducer: a task whose handle is dropped is never run
SpawnProducerNotRun ==
    /\ scenario \in LoopChannelScenarios \cup PollScenarios
    /\ pc[Main] = "spawn"
    /\ pc' = [pc EXCEPT ![Main] = IF scenario = "clone_transmitter" THEN "spawn2"
                                  ELSE IF scenario \in PollScenarios THEN "poll"
                                  ELSE "next"]
    /\ UNCHANGED <<scenario, i, chan, recieved, out, cell, local, joinRes>>

\* sending_multiple_values, clone_transmitter: the first thread::spawn, whose
\* closure owns tx (tx1 in clone_transmitter) and loops over vals
SpawnProducer ==
    /\ scenario \in LoopChannelScenarios \cup PollScenarios
    /\ pc[Main] = "spawn"
    /\ pc' = [pc EXCEPT ![Main] = IF scenario = "clone_transmitter" THEN "spawn2"
                                  ELSE IF scenario \in PollScenarios THEN "poll"
                                  ELSE "next",
                        ![1] = "send"]
    /\ i' = [i EXCEPT ![1] = 1]
    /\ UNCHANGED <<scenario, chan, recieved, out, cell, local, joinRes>>

\* clone_transmitter: the second thread::spawn, whose closure owns tx
SpawnProducer2 ==
    /\ pc[Main] = "spawn2"
    /\ pc' = [pc EXCEPT ![Main] = "next", ![2] = "send"]
    /\ i' = [i EXCEPT ![2] = 1]
    /\ UNCHANGED <<scenario, chan, recieved, out, cell, local, joinRes>>

\* let val = String::from("hi"); tx.send(val) and unwrap of Ok
SendHi ==
    /\ pc[1] = "send_hi"
    /\ SendResult(chan) # "Blocked"
    /\ chan' = Send(chan, Msg(1, "hi"))
    /\ Goto(1, IF SendResult(chan) = "Ok" THEN "exit" ELSE "send_err")
    /\ UNCHANGED <<scenario, i, recieved, out, cell, local, joinRes>>

\* for val in vals { tx.send(val) and unwrap of Ok ...
SendVal(t) ==
    /\ pc[t] = "send"
    /\ SendResult(chan) # "Blocked"
    /\ chan' = Send(chan, Msg(t, vals[i[t]]))
    /\ Goto(t, IF SendResult(chan) = "Ok" THEN "send_sleep" ELSE "send_err")
    /\ UNCHANGED <<scenario, i, recieved, out, cell, local, joinRes>>

\* .unwrap() of send's Err(SendError): the producer panics
SendUnwrapErr(t) ==
    /\ pc[t] = "send_err"
    /\ Goto(t, "unwind")
    /\ UNCHANGED <<scenario, i, chan, recieved, out, cell, local, joinRes>>

\* channel_ends only: the producer takes send's error as a value and stops
\* sending
SendErrHandled(t) ==
    /\ scenario \in PollScenarios
    /\ pc[t] = "send_err"
    /\ Goto(t, "exit")
    /\ UNCHANGED <<scenario, i, chan, recieved, out, cell, local, joinRes>>

\* ... thread::sleep(Duration::from_secs(1)); } and the next val, if any
ProducerSleep(t) ==
    /\ pc[t] = "send_sleep"
    /\ t \in Workers
    /\ scenario \in LoopChannelScenarios \cup PollScenarios
    /\ i' = [i EXCEPT ![t] = @ + 1]
    /\ Goto(t, IF i[t] + 1 <= Len(vals) THEN "send" ELSE "exit")
    /\ UNCHANGED <<scenario, chan, recieved, out, cell, local, joinRes>>

\* the end of the producer's closure (or its unwinding after a failed
\* unwrap) drops the Sender the closure owns
ProducerExit(t) ==
    /\ pc[t] \in {"exit", "unwind"}
    /\ chan' = SenderDrop(chan)
    /\ Goto(t, IF pc[t] = "exit" THEN "done" ELSE "panicked")
    /\ UNCHANGED <<scenario, i, recieved, out, cell, local, joinRes>>

\* let recieved = rx.recv().unwrap();
RecvUnwrap ==
    /\ pc[Main] = "recv"
    /\ RecvResult(chan) # "Blocked"
    /\ IF RecvResult(chan) = "Ok"
       THEN /\ recieved' = Head(chan.queue)
            /\ chan' = Recv(chan)
            /\ Goto(Main, "print_got")
       ELSE /\ Goto(Main, "unwind")
            /\ UNCHANGED <<chan, recieved>>
    /\ UNCHANGED <<scenario, i, out, cell, local, joinRes>>

\* for recieved in rx: the iterator's next() is rx.recv().ok(), and the loop
\* ends at the first Err
IterNext ==
    /\ pc[Main] = "next"
    /\ RecvResult(chan) # "Blocked"
    /\ IF RecvResult(chan) = "Ok"
       THEN /\ recieved' = Head(chan.queue)
            /\ chan' = Recv(chan)
            /\ Goto(Main, "print_got")
       ELSE /\ Goto(Main, "ret")
            /\ UNCHANGED <<chan, recieved>>
    /\ UNCHANGED <<scenario, i, out, cell, local, joinRes>>

\* println!("Got: {}", recieved)
PrintGot ==
    /\ pc[Main] = "print_got"
    /\ out' = Append(out, recieved)
    /\ Goto(Main, IF scenario = "message_passing" THEN "ret"
                  ELSE IF scenario \in PollScenarios THEN "poll"
                  ELSE "next")
    /\ UNCHANGED <<scenario, i, chan, recieved, cell, local, joinRes>>

\* channel_ends only: rx.try_recv(), its three results kept apart
TryRecv ==
    /\ pc[Main] = "poll"
    /\ IF TryRecvResult(chan) = "Ok"
       THEN /\ recieved' = Head(chan.queue)
            /\ chan' = Recv(chan)
            /\ Goto(Main, "print_got")
       ELSE /\ Goto(Main, IF TryRecvResult(chan) = "Empty"
                          THEN "try_empty" ELSE "try_disconnected")
            /\ UNCHANGED <<chan, recieved>>
    /\ UNCHANGED <<scenario, i, out, cell, local, joinRes>>

\* channel_ends only: after Empty the consumer polls again; after
\* Disconnected it treats the stream as ended
TryRecvHandled ==
    /\ pc[Main] \in {"try_empty", "try_disconnected"}
    /\ Goto(Main, IF pc[Main] = "try_empty" THEN "poll" ELSE "ret")
    /\ UNCHANGED <<scenario, i, chan, recieved, out, cell, local, joinRes>>

\* channel_ends only: the consumer gives up polling and returns, whatever
\* the producer is doing
StopPolling ==
    /\ pc[Main] = "poll"
    /\ Goto(Main, "ret")
    /\ UNCHANGED <<scenario, i, chan, recieved, out, cell, local, joinRes>>

\* the consumer leaves the function (or unwinds): rx is dropped
ConsumerReturn ==
    /\ pc[Main] \in {"ret", "unwind"}
    /\ chan' = ReceiverDrop(chan)
    /\ Goto(Main, IF pc[Main] = "ret" THEN "done" ELSE "panicked")
    /\ UNCHANGED <<scenario, i, recieved, out, cell, local, joinRes>>

----------------------------------------------------------------------------
(* use_mutex; cell_contention runs its lock, scope and unwrap on one cell  *)
(* shared by the worker threads                                            *)

\* let m = Mutex::new(5);
NewCell ==
    /\ scenario \in CellScenarios
    /\ pc[Main] = "start"
    /\ cell' = MutexNew(InitialValue)
    /\ i' = [i EXCEPT ![Main] = 1]
    /\ Goto(Main, IF scenario = "use_mutex" THEN "lock" ELSE "spawn_worker")
    /\ UNCHANGED <<scenario, chan, recieved, out, local, joinRes>>

\* cell_contention only: the threads that share the cell are started one
\* after the other
SpawnWorker ==
    /\ pc[Main] = "spawn_worker"
    /\ pc' = [pc EXCEPT ![Main] = IF i[Main] < NThreads
                                  THEN "spawn_worker" ELSE "done",
                        ![i[Main]] = "lock"]
    /\ i' = [i EXCEPT ![Main] = @ + 1]
    /\ UNCHANGED <<scenario, chan, recieved, out, cell, local, joinRes>>

\* let mut num = m.lock().unwrap(); lock() takes the lock once it is free
\* and returns the guard, in Ok or, for a poisoned cell, inside the
\* PoisonError; unwrap of Ok binds the guard to `num`
LockUnwrap(t) ==
    /\ pc[t] = "lock"
    /\ LockResult(cell) # "Blocked"
    /\ cell' = [cell EXCEPT !.holders = @ \cup {t}]
    /\ Goto(t, IF LockResult(cell) = "Poisoned" THEN "lock_err"
               ELSE IF scenario = "use_mutex" THEN "write" ELSE "read")
    /\ UNCHANGED <<scenario, i, chan, recieved, out, local, joinRes>>

\* unwrap of Err(PoisonError) panics; the guard inside the error is dropped
\* while the thread unwinds
LockUnwrapErr(t) ==
    /\ pc[t] = "lock_err"
    /\ cell' = GuardDrop(cell, t, TRUE)
    /\ Goto(t, "panicked")
    /\ UNCHANGED <<scenario, i, chan, recieved, out, local, joinRes>>

\* *num = 6;
WriteNum ==
    /\ pc[Main] = "write"
    /\ cell' = [cell EXCEPT !.value = WrittenValue]
    /\ Goto(Main, "scope_end")
    /\ UNCHANGED <<scenario, i, chan, recieved, out, local, joinRes>>

\* } the guard `num` goes out of scope
ScopeEnd(t) ==
    /\ pc[t] = "scope_end"
    /\ cell' = GuardDrop(cell, t, FALSE)
    /\ Goto(t, IF scenario = "use_mutex" THEN "print_m" ELSE "done")
    /\ UNCHANGED <<scenario, i, chan, recieved, out, local, joinRes>>

\* println!("m = {:?}", m); Debug for Mutex reads the value under try_lock
PrintCell ==
    /\ pc[Main] = "print_m"
    /\ out' = Append(out, <<"m", IF LockResult(cell) = "Blocked"
                                  THEN "<locked>" ELSE cell.value>>)
    /\ Goto(Main, "done")
    /\ UNCHANGED <<scenario, i, chan, recieved, cell, local, joinRes>>

\* cell_contention only: read-increment-write through the guard, in two steps
CellRead(t) ==
    /\ pc[t] = "read"
    /\ local' = [local EXCEPT ![t] = cell.value]
    /\ Goto(t, "incr")
    /\ UNCHANGED <<scenario, i, chan, recieved, out, cell, joinRes>>

CellIncrWrite(t) ==
    /\ pc[t] = "incr"
    /\ cell' = [cell EXCEPT !.value = local[t] + 1]
    /\ Goto(t, "scope_end")
    /\ UNCHANGED <<scenario, i, chan, recieved, out, local, joinRes>>

\* cell_contention only: the critical section terminates abnormally; the
\* guard is dropped while the thread unwinds
CriticalPanic(t) ==
    /\ pc[t] \in {"read", "incr"}
    /\ cell' = GuardDrop(cell, t, TRUE)
    /\ Goto(t, "panicked")
    /\ UNCHANGED <<scenario, i, chan, recieved, out, local, joinRes>>

\* cell_contention only: the critical section returns early, before the write
EarlyReturn(t) ==
    /\ pc[t] = "read"
    /\ cell' = GuardDrop(cell, t, FALSE)
    /\ Goto(t, "returned")
    /\ UNCHANGED <<scenario, i, chan, recieved, out, local, joinRes>>

----------------------------------------------------------------------------
Next ==
    \/ SpawnLoopThread
    \/ SpawnedPrint
    \/ SpawnedSleep
    \/ MainPrint
    \/ SpawnVecThread
    \/ SpawnedPrintVec
    \/ Join
    \/ JoinUnwrap
    \/ TaskPanic
    \/ JoinHandled
    \/ Channel
    \/ CloneSender
    \/ SpawnSender
    \/ SpawnProducer
    \/ SpawnProducer2
    \/ SendHi
    \/ \E t \in Workers : SendVal(t)
    \/ \E t \in Workers : SendUnwrapErr(t)
    \/ \E t \in Workers : SendErrHandled(t)
    \/ TryRecv
    \/ TryRecvHandled
    \/ StopPolling
    \/ \E t \in Workers : ProducerSleep(t)
    \/ \E t \in Workers : ProducerExit(t)
    \/ RecvUnwrap
    \/ IterNext
    \/ PrintGot
    \/ ConsumerReturn
    \/ NewCell
    \/ SpawnWorker
    \/ \E t \in Threads : LockUnwrap(t)
    \/ \E t \in Threads : LockUnwrapErr(t)
    \/ WriteNum
    \/ \E t \in Threads : ScopeEnd(t)
    \/ PrintCell
    \/ \E t \in Workers : CellRead(t)
    \/ \E t \in Workers : CellIncrWrite(t)
    \/ \E t \in Workers : CriticalPanic(t)
    \/ \E t \in Workers : EarlyReturn(t)

Spec == Init /\ [][Next]_vars

\* The steps of the thread that runs the routine, and of a spawned thread
MainStep ==
    \/ SpawnLoopThread \/ MainPrint \/ SpawnVecThread \/ Join \/ JoinUnwrap
    \/ JoinHandled \/ Channel \/ CloneSender \/ SpawnSender \/ SpawnProducer
    \/ SpawnProducer2 \/ RecvUnwrap \/ IterNext \/ TryRecv \/ TryRecvHandled
    \/ StopPolling \/ PrintGot \/ ConsumerReturn
    \/ NewCell \/ SpawnWorker \/ LockUnwrap(Main) \/ LockUnwrapErr(Main)
    \/ WriteNum \/ ScopeEnd(Main)
    \/ PrintCell

WorkerStep(t) ==
    \/ (t = 1 /\ (SpawnedPrint \/ SpawnedSleep \/ SpawnedPrintVec \/ TaskPanic
                  \/ SendHi))
    \/ SendVal(t) \/ SendUnwrapErr(t) \/ SendErrHandled(t)
    \/ ProducerSleep(t) \/ ProducerExit(t)
    \/ LockUnwrap(t) \/ LockUnwrapErr(t) \/ ScopeEnd(t)
    \/ CellRead(t) \/ CellIncrWrite(t) \/ CriticalPanic(t) \/ EarlyReturn(t)

\* Threads are operating-system threads: one that can take a step is
\* eventually scheduled.
FairSpec ==
    /\ Spec
    /\ WF_vars(MainStep)
    /\ \A t \in Workers : WF_vars(WorkerStep(t))

----------------------------------------------------------------------------
(* Properties                                                              *)

IsPrefix(s, t) == Len(s) <= Len(t) /\ SubSeq(t, 1, Len(s)) = s
ValsOf(s) == [k \in DOMAIN s |-> s[k].val]
FromThread(s, t) == LET from_t(m) == m.from = t IN SelectSeq(s, from_t)
BagOfSeq(s) ==
    [x \in {s[k] : k \in DOMAIN s} |-> Cardinality({k \in DOMAIN s : s[k] = x})]

\* What the consumer has taken out of the channel, in the order it did
Delivered ==
    out \o (IF pc[Main] = "print_got" THEN <<recieved>> ELSE <<>>)

\* The Strings producer t sends, in its send order, and how many of them its
\* send calls have enqueued so far
SentSeq(t) == IF scenario = "message_passing" THEN <<"hi">> ELSE vals
SentCount(t) ==
    CASE pc[t] \in {"idle", "send_hi"} -> 0
      [] pc[t] = "send_sleep" -> i[t]
      [] pc[t] \in {"send", "send_err", "unwind"} ->
             IF scenario = "message_passing" THEN 0 ELSE i[t] - 1
      [] OTHER -> Len(SentSeq(t))

\* Thread t is inside the scope of its guard; t owns a guard (there, or
\* inside the PoisonError it is about to unwrap)
InCritical(t) == pc[t] \in {"read", "incr", "write", "scope_end"}
OwnsGuard(t) == InCritical(t) \/ pc[t] = "lock_err"

\* C1: what the consumer has received from one producer is, at every moment
\* and in every channel routine, an initial part of what that producer sent,
\* in the order of its send calls: no message overtakes an earlier one of the
\* same producer.
C1_FifoPerProducer ==
    scenario \in ChannelScenarios =>
        \A t \in Workers :
            IsPrefix(ValsOf(FromThread(Delivered, t)), SentSeq(t))

\* C1 witness: sending_multiple_values has received all four messages, in the
\* order of vals, and its loop has ended.
C1_Witness ==
    /\ scenario = "sending_multiple_values"
    /\ pc[Main] = "done"
    /\ ValsOf(out) = vals

\* C2: in clone_transmitter, once the receive loop has drained the channel,
\* the messages received are exactly the messages the two producers sent,
\* each once: as tagged messages and as a multiset of Strings.
C2_NoLossNoDuplication ==
    (scenario = "clone_transmitter" /\ pc[Main] \in {"ret", "done"}) =>
        /\ BagOfSeq(out) = BagOfSeq([k \in 1..Len(vals) |-> Msg(1, vals[k])]
                                    \o [k \in 1..Len(vals) |-> Msg(2, vals[k])])
        /\ BagOfSeq(ValsOf(out)) = BagOfSeq(vals \o vals)

\* C2 witness: the loop has ended after receiving the two producers'
\* messages interleaved.
C2_Witness ==
    /\ scenario = "clone_transmitter"
    /\ pc[Main] = "done"
    /\ Len(out) = 2 * Len(vals)
    /\ out[1].from = 2
    /\ out[2].from = 1
    /\ out[3].from = 2

\* C3: at most one thread owns a guard of the cell, a thread inside the
\* scope of its guard is that one, and every step that reads the value into
\* a local or writes the value is taken by the thread that holds the lock.
C3_MutualExclusion ==
    /\ Cardinality(cell.holders) <= 1
    /\ \A t \in Threads : OwnsGuard(t) => cell.holders = {t}
    /\ Cardinality({t \in Threads : OwnsGuard(t)}) <= 1

C3_AccessByHolder ==
    /\ cell'.value # cell.value /\ pc[Main] # "start" =>
           \E t \in cell.holders :
               pc[t] \in {"incr", "write"} /\ pc'[t] = "scope_end"
    /\ \A t \in Threads : local'[t] # local[t] => t \in cell.holders

C3_ExclusiveAccess == []C3_MutualExclusion /\ [][C3_AccessByHolder]_vars

\* C3 witness: one thread is between its read and its write while the two
\* others wait in lock().
C3_Witness ==
    /\ scenario = "cell_contention"
    /\ \E t \in Workers :
           /\ pc[t] = "incr"
           /\ \A u \in Workers \ {t} : pc[u] = "lock"

\* C4: when every one of the N threads has taken the lock once, done its
\* read-increment-write and released the lock, the value is the initial
\* value plus N.
C4_NoLostUpdate ==
    (scenario = "cell_contention" /\ \A t \in Workers : pc[t] = "done") =>
        cell.value = InitialValue + NThreads

\* C4 witness: all N threads are done and the cell is unlocked.
C4_Witness ==
    /\ scenario = "cell_contention"
    /\ \A t \in Workers : pc[t] = "done"
    /\ cell.holders = {}

\* C5: in the routines that iterate over the receiver, once the channel
\* exists and every Sender has been dropped, the receive loop gets its
\* Disconnected and ends, and the routine terminates.
AllSendersDropped == chan.receiver /\ chan.senders = 0
LoopEnded == pc[Main] \in {"ret", "done"}

C5_DisconnectEndsLoop ==
    scenario \in LoopChannelScenarios =>
        /\ AllSendersDropped ~> LoopEnded
        /\ <>(pc[Main] = "done" /\ \A t \in Workers : pc[t] \in {"idle", "done"})

\* C5 witness: every Sender is dropped, the queue is empty and the consumer
\* is about to call recv (through the iterator).
C5_Witness ==
    /\ scenario \in LoopChannelScenarios
    /\ AllSendersDropped
    /\ chan.queue = <<>>
    /\ pc[Main] = "next"

\* C6: a recv ends in Disconnected only in a state where the queue is empty
\* and no Sender is left; and while the Receiver lives, what each producer
\* has sent is what was delivered from it followed by what is still queued
\* from it, so the drop of a Sender discards nothing.
NothingDiscarded ==
    (scenario \in ChannelScenarios /\ chan.receiver) =>
        \A t \in Workers :
            ValsOf(FromThread(Delivered \o chan.queue, t))
                = SubSeq(SentSeq(t), 1, SentCount(t))

RecvDisconnected ==
    /\ pc[Main] \in {"recv", "next"}
    /\ pc'[Main] \in {"unwind", "ret"}

C6_DisconnectedOnlyWhenDrained ==
    /\ []NothingDiscarded
    /\ [][RecvDisconnected => chan.queue = <<>> /\ chan.senders = 0]_vars

\* C6 witness: three messages have been received, and the only Sender has
\* been dropped while the fourth is still queued for the next recv.
C6_Witness ==
    /\ scenario = "sending_multiple_values"
    /\ chan.senders = 0
    /\ chan.queue = <<Msg(1, "thread")>>
    /\ Len(out) = Len(vals) - 1

\* C7: in message_passing the recv returns "hi" and never Disconnected, and
\* in every state after it in which rx still exists a further recv finds
\* no message: it returns Disconnected as soon as the task has exited.
AfterFirstRecv == pc[Main] \in {"print_got", "ret"}

C7_HiThenDisconnected ==
    scenario = "message_passing" =>
        /\ pc[Main] \notin {"unwind", "panicked"}
        /\ pc[Main] \in {"print_got", "ret", "done"} => recieved = Msg(1, "hi")
        /\ AfterFirstRecv => RecvResult(chan) # "Ok"
        /\ AfterFirstRecv /\ pc[1] = "done" => RecvResult(chan) = "Disconnected"

\* C7 witness: "hi" has been received and printed, the task has exited, and
\* a second recv would return Disconnected.
C7_Witness ==
    /\ scenario = "message_passing"
    /\ pc[Main] = "ret"
    /\ out = <<Msg(1, "hi")>>
    /\ pc[1] = "done"
    /\ RecvResult(chan) = "Disconnected"

\* C8: whenever join has returned, the task has terminated; where it
\* returned Ok the whole task body has run (the nine prints of the spawned
\* loop, in order; the print of the vector); the routines of main.rs always
\* get Ok; and the value join returned is set once and never changes.
SpawnedOut == LET spawned(e) == e[1] = "spawned" IN SelectSeq(out, spawned)
JoinReturned == pc[Main] \in {"unwrap", "done", "panicked"}

C8_JoinAfterCompletion ==
    (scenario \in JoinScenarios /\ JoinReturned) =>
        /\ pc[1] \in {"done", "panicked"}
        /\ joinRes = (IF pc[1] = "done" THEN "Ok" ELSE "TaskPanicked")
        /\ scenario \in {"spawn_threadsa", "closures_and_threads"} => joinRes = "Ok"
        /\ (joinRes = "Ok" /\ scenario \in JoinLoopScenarios) =>
               SpawnedOut = [k \in 1..(SpawnedEnd - 1) |-> <<"spawned", k>>]
        /\ (joinRes = "Ok" /\ scenario = "closures_and_threads") =>
               out = <<(<<"vector", v>>)>>

C8_JoinBlocksUntilDone ==
    /\ []C8_JoinAfterCompletion
    /\ [][joinRes # "none" => joinRes' = joinRes]_vars

\* C8 witness: spawn_threadsa has returned from join and unwrap, and the
\* last line printed is the spawned thread's ninth.
C8_Witness ==
    /\ scenario = "spawn_threadsa"
    /\ pc[Main] = "done"
    /\ Len(out) = (SpawnedEnd - 1) + (MainEnd - 1)
    /\ out[Len(out)] = <<"spawned", SpawnedEnd - 1>>

\* C9: join on a task that terminated abnormally returns TaskPanicked as a
\* value; the joining thread is still running when it has that value, and
\* it terminates abnormally only by the unwrap of that value.
C9_PanicIsAValue ==
    scenario \in JoinScenarios =>
        /\ (JoinReturned /\ pc[1] = "panicked") => joinRes = "TaskPanicked"
        /\ pc[Main] = "panicked" => joinRes = "TaskPanicked"
        /\ joinRes = "TaskPanicked" => pc[1] = "panicked"

C9_EscalationIsUnwrap ==
    (scenario \in JoinScenarios /\ pc[Main] # "panicked" /\ pc'[Main] = "panicked")
        => (pc[Main] = "unwrap" /\ joinRes = "TaskPanicked")

C9_TaskPanickedReturned == []C9_PanicIsAValue /\ [][C9_EscalationIsUnwrap]_vars

\* C9 witness: the task has terminated abnormally, join has returned
\* TaskPanicked, and the joining thread holds that value and is running.
C9_Witness ==
    /\ scenario = "join_outcome"
    /\ pc[1] = "panicked"
    /\ joinRes = "TaskPanicked"
    /\ pc[Main] = "unwrap"

\* C10: a thread that has left the scope of its guard (by the end of the
\* scope, an early return or abnormal termination) does not hold the lock:
\* the lock is held only by a thread that owns a guard; and a thread
\* waiting in lock() eventually acquires the lock.
C10_NotHeldOutsideScope ==
    scenario \in CellScenarios =>
        \A t \in Threads : t \in cell.holders => OwnsGuard(t)

C10_ReleasedOnEveryExit ==
    /\ []C10_NotHeldOutsideScope
    /\ \A t \in Threads : (pc[t] = "lock") ~> (t \in cell.holders)

\* C10 witness: one thread left its scope by an early return and one by
\* abnormal termination, and a third, which waited in lock(), has the lock.
C10_Witness ==
    /\ scenario = "cell_contention"
    /\ \E u, w, x \in Workers :
           /\ pc[u] = "returned"
           /\ pc[w] = "panicked"
           /\ pc[x] = "lock_err"
           /\ cell.holders = {x}

\* C11: the cell is poisoned exactly when a thread has terminated abnormally
\* while it owned a guard; once poisoned it stays poisoned, and every lock()
\* that returns on a poisoned cell returns Poisoned; a cell whose holders all
\* left their scopes normally (end of scope, early return) is not poisoned.
C11_PoisonedIffPanicked ==
    scenario \in CellScenarios =>
        /\ cell.poisoned <=> (\E t \in Threads : pc[t] = "panicked")
        /\ cell.poisoned => LockResult(cell) # "Ok"

LockReturns(t) == pc[t] = "lock" /\ pc'[t] # "lock"

C11_LockFailsOncePoisoned ==
    /\ cell.poisoned => cell'.poisoned
    /\ \A t \in Threads :
           LockReturns(t) =>
               (pc'[t] = "lock_err") = cell.poisoned

C11_PoisonPolicy == []C11_PoisonedIffPanicked /\ [][C11_LockFailsOncePoisoned]_vars

\* C11 witness: a thread has terminated abnormally inside its critical
\* section, the cell is poisoned, and the lock() of a thread that came after
\* has returned Poisoned.
C11_Witness ==
    /\ scenario = "cell_contention"
    /\ cell.poisoned
    /\ \E t, u \in Workers : pc[t] = "panicked" /\ pc[u] = "lock_err"

\* C12: a send on a channel whose Receiver has been dropped returns
\* Disconnected to a producer that is still running and leaves the channel
\* as it was; a send on a channel whose Receiver is alive succeeds and
\* appends the message, the next of the producer's Strings, to the queue.
SendReturns(t) == pc[t] \in {"send", "send_hi"} /\ pc'[t] # pc[t]

C12_SendStep ==
    \A t \in Workers :
        SendReturns(t) =>
            IF chan.receiver
            THEN /\ pc'[t] \in {"send_sleep", "exit"}
                 /\ chan' = [chan EXCEPT !.queue =
                        Append(@, Msg(t, SentSeq(t)[SentCount(t) + 1]))]
            ELSE /\ pc'[t] = "send_err"
                 /\ chan' = chan

C12_SendAfterReceiverDrop == [][C12_SendStep]_vars

\* C12 witness: the Receiver is gone, and the producer holds the
\* Disconnected its second send returned.
C12_Witness ==
    /\ scenario = "channel_ends"
    /\ ~chan.receiver
    /\ pc[1] = "send_err"
    /\ i[1] = 2
    /\ chan.queue = <<>>

\* C13: try_recv never blocks; it returns the head of a non-empty queue and
\* removes it, Empty on an empty queue with a live Sender, Disconnected on
\* an empty queue with none, and in these two cases leaves the channel as
\* it was.
C13_TryRecvStep ==
    pc[Main] = "poll" /\ pc'[Main] \notin {"poll", "ret"} =>
        /\ chan.queue # <<>> =>
               /\ pc'[Main] = "print_got"
               /\ recieved' = Head(chan.queue)
               /\ chan' = [chan EXCEPT !.queue = Tail(@)]
        /\ chan.queue = <<>> /\ chan.senders > 0 =>
               pc'[Main] = "try_empty" /\ chan' = chan
        /\ chan.queue = <<>> /\ chan.senders = 0 =>
               pc'[Main] = "try_disconnected" /\ chan' = chan

C13_TryRecvNeverBlocks ==
    /\ [](pc[Main] = "poll" => ENABLED TryRecv)
    /\ [][C13_TryRecvStep]_vars

\* C13 witness: try_recv has returned Empty while the producer, which has
\* sent and will send again, is alive.
C13_Witness ==
    /\ scenario = "channel_ends"
    /\ pc[Main] = "try_empty"
    /\ pc[1] = "send"
    /\ Len(out) = 2

\* C14: a producer that is at a send can always take it: the send step is
\* enabled whatever the length of the queue and wherever the consumer is.
C14_SendNeverBlocks ==
    /\ \A t \in Workers : pc[t] = "send" => ENABLED SendVal(t)
    /\ pc[1] = "send_hi" => ENABLED SendHi

\* C14 witness: a producer is at its fourth send, three messages are queued
\* and the consumer is about to receive.
C14_Witness ==
    /\ scenario = "sending_multiple_values"
    /\ pc[1] = "send"
    /\ Len(chan.queue) = 3
    /\ pc[Main] = "next"

\* C15: the producers of the channel routines are spawned with their handle
\* dropped; each of them eventually performs every one of its sends and
\* runs to the end of its closure, and no result of theirs is ever taken.
Producers ==
    IF scenario = "clone_transmitter" THEN {1, 2} ELSE {1}

DetachedCompleted ==
    \A t \in Producers :
        pc[t] = "done" /\ SentCount(t) = Len(SentSeq(t))

IterationEnds == pc[Main] = "next" /\ pc'[Main] = "ret"

C16_IterationStep ==
    scenario \in LoopChannelScenarios =>
        /\ IterationEnds =>
               /\ RecvResult(chan) = "Disconnected"
               /\ chan.queue = <<>>
               /\ chan.senders = 0
        /\ (pc[Main] = "next" /\ pc'[Main] # "next"
                /\ chan.queue = <<>> /\ chan.senders = 0) => pc'[Main] = "ret"
        /\ LoopEnded => (LoopEnded' /\ out' = out /\ recieved' = recieved)

C16_IterationEndsAtDisconnect == [][C16_IterationStep]_vars

\* C16 witness: the iteration of clone_transmitter has just ended, after
\* eight messages, with the queue empty and no Sender left.
C16_Witness ==
    /\ scenario = "clone_transmitter"
    /\ pc[Main] = "ret"
    /\ Len(out) = 2 * Len(vals)
    /\ chan.queue = <<>>
    /\ chan.senders = 0

\* C17: in spawn_threadsa, after spawn has returned, whichever of the two
\* threads has a print (or sleep) left can take it next, whatever the other
\* has done so far (so the four and the nine prints interleave in every
\* order), and the lines of each thread appear in the output in that
\* thread's program order.
MainOut == LET main(e) == e[1] = "main" IN SelectSeq(out, main)
SpawnedPrinted == IF pc[1] = "sleep" THEN i[1] ELSE i[1] - 1

C17_SpawnDoesNotWait ==
    scenario = "spawn_threadsa" =>
        /\ pc[Main] = "loop" => ENABLED MainPrint
        /\ pc[1] = "print" => ENABLED SpawnedPrint
        /\ pc[1] = "sleep" => ENABLED SpawnedSleep
        /\ MainOut = [k \in 1..(i[Main] - 1) |-> <<"main", k>>]
        /\ SpawnedOut = [k \in 1..SpawnedPrinted |-> <<"spawned", k>>]

\* C17 witness: the spawned thread printed first, then the main thread
\* printed its four lines, and the spawned thread has not printed again.
C17_Witness ==
    /\ scenario = "spawn_threadsa"
    /\ out = <<(<<"spawned", 1>>), (<<"main", 1>>), (<<"main", 2>>),
               (<<"main", 3>>), (<<"main", 4>>)>>

\* The other extreme: the four main-thread lines precede the first line of
\* the spawned thread, which then prints its nine.
C17_MainFirst ==
    /\ scenario = "spawn_threadsa"
    /\ Len(out) = (MainEnd - 1) + (SpawnedEnd - 1)
    /\ \A k \in 1..(MainEnd - 1) : out[k] = <<"main", k>>

\* C18: clone_transmitter terminates; both Senders are owned by the producer
\* threads, so that none is left once they have exited, and when the
\* receive loop has ended exactly eight messages have been received, the
\* four of each producer in the order "hi", "from", "the", "thread".
C18_AtLoopEnd ==
    (scenario = "clone_transmitter" /\ LoopEnded) =>
        /\ Len(out) = 2 * Len(vals)
        /\ \A t \in {1, 2} : ValsOf(FromThread(out, t)) = vals
        /\ chan.senders = 0
        /\ \A t \in {1, 2} : pc[t] = "done"

C18_CloneTransmitterTerminates ==
    scenario = "clone_transmitter" =>
        /\ <>(pc[Main] = "done")
        /\ []C18_AtLoopEnd

\* C18 witness: clone_transmitter has returned after eight messages, the
\* first from the second producer.
C18_Witness ==
    /\ scenario = "clone_transmitter"
    /\ pc[Main] = "done"
    /\ Len(out) = 2 * Len(vals)
    /\ out[1] = Msg(2, "hi")
    /\ out[2 * Len(vals)] = Msg(1, "thread")

\* C19: in message_passing, sending_multiple_values and clone_transmitter
\* every send finds the Receiver alive and returns Ok: no producer is ever
\* holding a send error, unwinding or panicked, and the Receiver is dropped
\* only when every producer has performed its last send.
C19_NoSendFails ==
    scenario \in ChannelScenarios =>
        /\ \A t \in Workers :
               /\ pc[t] \notin {"send_err", "unwind", "panicked"}
               /\ pc[t] \in {"send", "send_hi"} =>
                      chan.receiver /\ SendResult(chan) = "Ok"
        /\ (pc[Main] # "start" /\ ~chan.receiver) =>
               \A t \in Producers : SentCount(t) = Len(SentSeq(t))

\* C19 witness: the Receiver of clone_transmitter has been dropped, after
\* the eight sends, and both producers ended normally.
C19_Witness ==
    /\ scenario = "clone_transmitter"
    /\ ~chan.receiver
    /\ pc[Main] = "done"
    /\ \A t \in {1, 2} : pc[t] = "done" /\ SentCount(t) = Len(vals)

\* C20: in use_mutex the lock() on the fresh cell finds it unlocked, not
\* poisoned and holding 5, and succeeds; after the inner scope the cell is
\* unlocked, not poisoned and holds 6, and the line printed is 6.
C20_UseMutex ==
    scenario = "use_mutex" =>
        /\ pc[Main] \notin {"lock_err", "panicked"}
        /\ pc[Main] = "lock" =>
               /\ cell = MutexNew(InitialValue)
               /\ LockResult(cell) = "Ok"
               /\ ENABLED LockUnwrap(Main)
        /\ pc[Main] \in {"print_m", "done"} =>
               cell = MutexNew(WrittenValue)
        /\ pc[Main] = "done" => out = <<(<<"m", WrittenValue>>)>>

\* C20 witness: use_mutex has printed 6 and returned.
C20_Witness ==
    /\ scenario = "use_mutex"
    /\ pc[Main] = "done"
    /\ out = <<(<<"m", 6>>)>>
    /\ cell.holders = {}
====
